---- MODULE Spec2Model ----
(***************************************************************************)
(* Model of package comparator (src/comparator.go): Compare fetches two    *)
(* URLs and reports the differences of the two responses as a sequence of  *)
(* Diff values.  Strings are sequences of one-character strings, so that   *)
(* slicing, prefix tests and replacement are computed, not assumed.        *)
(***************************************************************************)
EXTENDS Integers, Sequences, FiniteSets, TLC

VARIABLES pc, aFetch, bFetch, compareElements, result, err, aBody, bBody, ran,
          errIn, errOut, lines, diffs

vars == <<pc, aFetch, bFetch, compareElements, result, err, aBody, bBody, ran,
          errIn, errOut, lines, diffs>>

(***************************************************************************)
(* Bounds of the model.                                                    *)
(***************************************************************************)
\* longest inner error text of a failed fetch (the part after "Get URL: ")
MaxErrLen == 2
\* longest error message handed to trimErrorHost on its own
MaxMsgLen == 4
\* most elements of one HTML document
MaxElems == 1
\* most selectors in compareElements
MaxSelectors == 2
\* most lines, and longest line, handed to getDiffsFromStrings on its own
MaxLines == 2
MaxLineLen == 2

(***************************************************************************)
(* Strings.                                                                *)
(***************************************************************************)
\* all strings over alphabet cs of length at most n
Strs(cs, n) == UNION {[1..k -> cs] : k \in 0..n}

\* the index of the first c instead of the last
FirstIndex(s, c) ==
    IF \E i \in 1..Len(s) : s[i] = c
    THEN (CHOOSE i \in 1..Len(s) :
              s[i] = c /\ \A j \in 1..(i-1) : s[j] # c) - 1
    ELSE -1

\* strings.LastIndex(s, c): 0-based index of the last c in s, -1 if none
LastIndex(s, c) ==
    IF \E i \in 1..Len(s) : s[i] = c
    THEN (CHOOSE i \in 1..Len(s) :
              s[i] = c /\ \A j \in (i+1)..Len(s) : s[j] # c) - 1
    ELSE -1

\* strings.Index(s, c): 0-based index of the first c in s, -1 if none
Index(s, c) ==
    IF \E i \in 1..Len(s) : s[i] = c
    THEN (CHOOSE i \in 1..Len(s) :
              s[i] = c /\ \A j \in 1..(i-1) : s[j] # c) - 1
    ELSE -1

\* strings.HasPrefix(s, c) for a one-character prefix c
HasPrefix(s, c) == Len(s) >= 1 /\ s[1] = c

\* every occurrence of c removed: strings.Replace(s, c, "", -1)
ReplaceAll(s, c) == SelectSeq(s, LAMBDA x : x # c)

\* strings.Replace(s, c, "", 1): the first occurrence of c removed, if any
ReplaceFirst(s, c) ==
    LET i == Index(s, c)
    IN  IF i < 0 THEN s
        ELSE SubSeq(s, 1, i) \o SubSeq(s, i + 2, Len(s))

(***************************************************************************)
(* Diff and DiffType (lines 16-34).                                        *)
(***************************************************************************)
Delete == -1
Insert == 1

Diff(text, type) == [Text |-> text, Type |-> type]

(***************************************************************************)
(* trimErrorHost (lines 139-143).  errText[i:len(errText)] with i = -1     *)
(* is a slice with a negative bound: the Go runtime panics.                *)
(***************************************************************************)
trimErrorHost(errText) ==
    LET i == LastIndex(errText, ":")
    IN  IF i < 0
        THEN [panic |-> TRUE, Error |-> <<>>]
        ELSE [panic |-> FALSE, Error |-> SubSeq(errText, i + 1, Len(errText))]

(***************************************************************************)
(* getDiffsFromStrings (lines 123-137).                                    *)
(***************************************************************************)
RECURSIVE getDiffsFromStrings(_)
getDiffsFromStrings(ls) ==
    IF ls = <<>> THEN <<>>
    ELSE LET line == Head(ls)
             rest == getDiffsFromStrings(Tail(ls))
         IN  IF HasPrefix(line, "+")
             THEN <<Diff(ReplaceFirst(line, "+"), Insert)>> \o rest
             ELSE IF HasPrefix(line, "-")
             THEN <<Diff(ReplaceFirst(line, "-"), Delete)>> \o rest
             ELSE rest

(***************************************************************************)
(* The text differ (textDiffer, lines 24, 38, 111-112): DiffMain and       *)
(* DiffCleanupSemantic of diffmatchpatch.  An edit script is a sequence of *)
(* [Type, Text] with Type "equal", "insert" or "delete".  DiffMain strips  *)
(* the common prefix and suffix, handles the empty and the containment     *)
(* cases, and bisects the rest into a shortest edit script; the half-match *)
(* and line-mode speedups need texts of 4 and 100 characters that share a  *)
(* long substring and are not reached by the texts of this model, and the  *)
(* lossless boundary shift of the cleanup moves no edit of these texts.    *)
(***************************************************************************)
Edit(type, text) == [Type |-> type, Text |-> text]

Max(x, y) == IF x >= y THEN x ELSE y

Drop(s, n) == SubSeq(s, n + 1, Len(s))

DropLast(s, n) == SubSeq(s, 1, Len(s) - n)

\* DiffCommonPrefix: length of the longest common prefix
DiffCommonPrefix(a, b) ==
    LET n == IF Len(a) <= Len(b) THEN Len(a) ELSE Len(b)
        ks == {k \in 0..n : \A i \in 1..k : a[i] = b[i]}
    IN  CHOOSE k \in ks : \A j \in ks : j <= k

\* DiffCommonSuffix: length of the longest common suffix
DiffCommonSuffix(a, b) ==
    LET n == IF Len(a) <= Len(b) THEN Len(a) ELSE Len(b)
        ks == {k \in 0..n : \A i \in 1..k : a[Len(a) - k + i] = b[Len(b) - k + i]}
    IN  CHOOSE k \in ks : \A j \in ks : j <= k

\* DiffCommonOverlap: longest suffix of a that is a prefix of b
DiffCommonOverlap(a, b) ==
    LET n == IF Len(a) <= Len(b) THEN Len(a) ELSE Len(b)
        ks == {k \in 0..n : \A i \in 1..k : a[Len(a) - k + i] = b[i]}
    IN  CHOOSE k \in ks : \A j \in ks : j <= k

\* strings.Index(long, short) for a substring: 0-based, -1 if absent
IndexOfSub(long, short) ==
    LET is == {i \in 0..(Len(long) - Len(short)) :
                  SubSeq(long, i + 1, i + Len(short)) = short}
    IN  IF is = {} THEN -1 ELSE CHOOSE i \in is : \A j \in is : i <= j

RECURSIVE LCSLen(_, _)
LCSLen(a, b) ==
    IF a = <<>> \/ b = <<>> THEN 0
    ELSE IF Head(a) = Head(b) THEN 1 + LCSLen(Tail(a), Tail(b))
    ELSE Max(LCSLen(Tail(a), b), LCSLen(a, Tail(b)))

\* diffBisect: a shortest edit script, one character per edit
RECURSIVE diffBisect(_, _)
diffBisect(a, b) ==
    IF a = <<>> THEN [i \in 1..Len(b) |-> Edit("insert", <<b[i]>>)]
    ELSE IF b = <<>> THEN [i \in 1..Len(a) |-> Edit("delete", <<a[i]>>)]
    ELSE IF Head(a) = Head(b)
         THEN <<Edit("equal", <<Head(a)>>)>> \o diffBisect(Tail(a), Tail(b))
    ELSE IF LCSLen(Tail(a), b) >= LCSLen(a, Tail(b))
         THEN <<Edit("delete", <<Head(a)>>)>> \o diffBisect(Tail(a), b)
         ELSE <<Edit("insert", <<Head(b)>>)>> \o diffBisect(a, Tail(b))

\* append equal text to a script, joining it to a trailing equality
AppendEqual(out, text) ==
    IF text = <<>> THEN out
    ELSE IF out # <<>> /\ out[Len(out)].Type = "equal"
         THEN [out EXCEPT ![Len(out)].Text = @ \o text]
         ELSE Append(out, Edit("equal", text))

\* DiffCleanupMerge, first pass: close a run of deletions and insertions at
\* the equality eq, factoring the run's common prefix and suffix out
MergeRun(out, del, ins, eq) ==
    LET both == del # <<>> /\ ins # <<>>
        p    == IF both THEN DiffCommonPrefix(ins, del) ELSE 0
        del1 == Drop(del, p)
        ins1 == Drop(ins, p)
        s    == IF both THEN DiffCommonSuffix(ins1, del1) ELSE 0
        del2 == DropLast(del1, s)
        ins2 == DropLast(ins1, s)
        out1 == AppendEqual(out, SubSeq(ins, 1, p))
        out2 == out1 \o (IF del2 = <<>> THEN <<>> ELSE <<Edit("delete", del2)>>)
                     \o (IF ins2 = <<>> THEN <<>> ELSE <<Edit("insert", ins2)>>)
    IN  AppendEqual(out2, Drop(ins1, Len(ins1) - s) \o eq)

RECURSIVE MergePass1(_, _, _, _)
MergePass1(ds, out, del, ins) ==
    IF ds = <<>> THEN MergeRun(out, del, ins, <<>>)
    ELSE LET d == Head(ds)
         IN  IF d.Type = "insert"
             THEN MergePass1(Tail(ds), out, del, ins \o d.Text)
             ELSE IF d.Type = "delete"
             THEN MergePass1(Tail(ds), out, del \o d.Text, ins)
             ELSE MergePass1(Tail(ds), MergeRun(out, del, ins, d.Text), <<>>, <<>>)

IsSuffixOf(x, s) == Len(x) <= Len(s) /\ SubSeq(s, Len(s) - Len(x) + 1, Len(s)) = x

IsPrefixOf(x, s) == Len(x) <= Len(s) /\ SubSeq(s, 1, Len(x)) = x

RemoveAt(s, i) == SubSeq(s, 1, i - 1) \o SubSeq(s, i + 1, Len(s))

InsertAt(s, i, x) == SubSeq(s, 1, i - 1) \o <<x>> \o SubSeq(s, i, Len(s))

\* DiffCleanupMerge, second pass: a single edit between two equalities is
\* shifted over the equality it ends or starts with
RECURSIVE MergePass2(_, _, _)
MergePass2(ds, p, changes) ==
    IF p + 1 > Len(ds) THEN [ds |-> ds, changes |-> changes]
    ELSE IF ds[p - 1].Type = "equal" /\ ds[p + 1].Type = "equal"
    THEN IF IsSuffixOf(ds[p - 1].Text, ds[p].Text)
         THEN LET prev == ds[p - 1].Text
                  d1 == [ds EXCEPT
                           ![p].Text = prev \o DropLast(ds[p].Text, Len(prev)),
                           ![p + 1].Text = prev \o @]
              IN  MergePass2(RemoveAt(d1, p - 1), p + 1, TRUE)
         ELSE IF IsPrefixOf(ds[p + 1].Text, ds[p].Text)
         THEN LET next == ds[p + 1].Text
                  d1 == [ds EXCEPT
                           ![p - 1].Text = @ \o next,
                           ![p].Text = Drop(ds[p].Text, Len(next)) \o next]
              IN  MergePass2(RemoveAt(d1, p + 1), p + 1, TRUE)
         ELSE MergePass2(ds, p + 1, changes)
    ELSE MergePass2(ds, p + 1, changes)

RECURSIVE DiffCleanupMerge(_)
DiffCleanupMerge(ds) ==
    LET r == MergePass2(MergePass1(ds, <<>>, <<>>, <<>>), 2, FALSE)
    IN  IF r.changes THEN DiffCleanupMerge(r.ds) ELSE r.ds

\* diffCompute: the two texts share no prefix and no suffix
diffCompute(text1, text2) ==
    IF text1 = <<>> THEN <<Edit("insert", text2)>>
    ELSE IF text2 = <<>> THEN <<Edit("delete", text1)>>
    ELSE LET long  == IF Len(text1) > Len(text2) THEN text1 ELSE text2
             short == IF Len(text1) > Len(text2) THEN text2 ELSE text1
             op    == IF Len(text1) > Len(text2) THEN "delete" ELSE "insert"
             i     == IndexOfSub(long, short)
         IN  IF i # -1
             THEN <<Edit(op, SubSeq(long, 1, i)), Edit("equal", short),
                    Edit(op, Drop(long, i + Len(short)))>>
             ELSE IF Len(short) = 1
             THEN <<Edit("delete", text1), Edit("insert", text2)>>
             ELSE diffBisect(text1, text2)

\* textDiffer.DiffMain(text1, text2, true)
DiffMain(text1, text2) ==
    IF text1 = text2
    THEN IF text1 = <<>> THEN <<>> ELSE <<Edit("equal", text1)>>
    ELSE LET p  == DiffCommonPrefix(text1, text2)
             t1 == Drop(text1, p)
             t2 == Drop(text2, p)
             s  == DiffCommonSuffix(t1, t2)
             m1 == DropLast(t1, s)
             m2 == DropLast(t2, s)
             pre == IF p = 0 THEN <<>> ELSE <<Edit("equal", SubSeq(text1, 1, p))>>
             suf == IF s = 0 THEN <<>> ELSE <<Edit("equal", Drop(t1, Len(t1) - s))>>
         IN  DiffCleanupMerge(pre \o diffCompute(m1, m2) \o suf)

\* DiffCleanupSemantic, first loop: an equality no longer than the edits on
\* both of its sides is replaced by a deletion and an insertion of its text
RECURSIVE SemanticEliminate(_)
SemanticEliminate(st) ==
    IF st.p > Len(st.ds) THEN st
    ELSE LET d == st.ds[st.p]
         IN  IF d.Type = "equal"
             THEN SemanticEliminate([st EXCEPT
                      !.eqs = Append(@, st.p), !.li1 = st.li2, !.ld1 = st.ld2,
                      !.li2 = 0, !.ld2 = 0, !.last = d.Text, !.p = @ + 1])
             ELSE LET li2 == IF d.Type = "insert" THEN st.li2 + Len(d.Text) ELSE st.li2
                      ld2 == IF d.Type = "delete" THEN st.ld2 + Len(d.Text) ELSE st.ld2
                  IN  IF /\ Len(st.last) > 0
                         /\ Len(st.last) <= Max(st.li1, st.ld1)
                         /\ Len(st.last) <= Max(li2, ld2)
                      THEN LET at   == st.eqs[Len(st.eqs)]
                               ds1  == InsertAt(st.ds, at, Edit("delete", st.last))
                               ds2  == [ds1 EXCEPT ![at + 1].Type = "insert"]
                               eq1  == DropLast(st.eqs, 1)
                               eq2  == IF eq1 # <<>> THEN DropLast(eq1, 1) ELSE eq1
                               back == IF eq2 # <<>> THEN eq2[Len(eq2)] ELSE 0
                           IN  SemanticEliminate(
                                   [ds |-> ds2, eqs |-> eq2, last |-> <<>>,
                                    p |-> back + 1, li1 |-> 0, ld1 |-> 0,
                                    li2 |-> 0, ld2 |-> 0, changes |-> TRUE])
                      ELSE SemanticEliminate([st EXCEPT
                               !.li2 = li2, !.ld2 = ld2, !.p = @ + 1])

\* DiffCleanupSemantic, last loop: a deletion followed by an insertion that
\* overlap by at least half of either are split around the overlap
RECURSIVE SemanticOverlap(_, _)
SemanticOverlap(ds, p) ==
    IF p > Len(ds) THEN ds
    ELSE IF ds[p - 1].Type = "delete" /\ ds[p].Type = "insert"
    THEN LET deletion  == ds[p - 1].Text
             insertion == ds[p].Text
             o1 == DiffCommonOverlap(deletion, insertion)
             o2 == DiffCommonOverlap(insertion, deletion)
         IN  IF o1 >= o2
             THEN IF 2 * o1 >= Len(deletion) \/ 2 * o1 >= Len(insertion)
                  THEN SemanticOverlap(
                         InsertAt([ds EXCEPT ![p - 1].Text = DropLast(deletion, o1),
                                             ![p].Text = Drop(insertion, o1)],
                                  p, Edit("equal", SubSeq(insertion, 1, o1))),
                         p + 3)
                  ELSE SemanticOverlap(ds, p + 2)
             ELSE IF 2 * o2 >= Len(deletion) \/ 2 * o2 >= Len(insertion)
                  THEN SemanticOverlap(
                         InsertAt([ds EXCEPT
                                     ![p - 1] = Edit("insert", DropLast(insertion, o2)),
                                     ![p] = Edit("delete", Drop(deletion, o2))],
                                  p, Edit("equal", SubSeq(deletion, 1, o2))),
                         p + 3)
                  ELSE SemanticOverlap(ds, p + 2)
    ELSE SemanticOverlap(ds, p + 1)

\* textDiffer.DiffCleanupSemantic(diffs)
DiffCleanupSemantic(ds) ==
    LET st == SemanticEliminate([ds |-> ds, eqs |-> <<>>, last |-> <<>>, p |-> 1,
                                 li1 |-> 0, ld1 |-> 0, li2 |-> 0, ld2 |-> 0,
                                 changes |-> FALSE])
        merged == IF st.changes THEN DiffCleanupMerge(st.ds) ELSE st.ds
    IN  SemanticOverlap(merged, 2)

(***************************************************************************)
(* compareStrings (lines 109-121): the edit script with its equalities     *)
(* dropped, as Diff values.                                                *)
(***************************************************************************)
RECURSIVE editsToDiffs(_)
editsToDiffs(ds) ==
    IF ds = <<>> THEN <<>>
    ELSE LET element == Head(ds)
         IN  IF element.Type = "insert"
             THEN <<Diff(element.Text, Insert)>> \o editsToDiffs(Tail(ds))
             ELSE IF element.Type = "delete"
             THEN <<Diff(element.Text, Delete)>> \o editsToDiffs(Tail(ds))
             ELSE editsToDiffs(Tail(ds))

compareStrings(aString, bString) ==
    editsToDiffs(DiffCleanupSemantic(DiffMain(aString, bString)))

(***************************************************************************)
(* Responses.  A body is a single-use stream; what it holds is modelled by *)
(* what the two parsers make of it: a flat JSON object or malformed JSON,  *)
(* and the elements of the HTML document.  A stream records how often it   *)
(* was read and closed and whether it was read to its end.                 *)
(***************************************************************************)
JsonKeys == <<"a", "b">>

JsonValues == {<<"1">>, <<"-", "1">>}

JsonObjects ==
    UNION {[ks -> JsonValues] : ks \in SUBSET {JsonKeys[i] : i \in 1..Len(JsonKeys)}}

NoObject == [k \in {} |-> <<>>]

Tags == {"h1", "p"}

Texts == {<<>>, <<"x">>, <<"y">>, <<"x", "y">>}

Elements == [tag : Tags, text : Texts]

Documents == UNION {[1..k -> Elements] : k \in 0..MaxElems}

ReadFailBody == [readFails |-> TRUE, valid |-> FALSE, json |-> NoObject, html |-> <<>>]

JsonBodies == {[readFails |-> FALSE, valid |-> TRUE, json |-> o, html |-> <<>>] :
                  o \in JsonObjects}

HtmlBodies == {[readFails |-> FALSE, valid |-> FALSE, json |-> NoObject, html |-> d] :
                  d \in Documents}

Bodies == {ReadFailBody} \cup JsonBodies \cup HtmlBodies

Fresh == [reads |-> 0, closes |-> 0, eof |-> FALSE]

\* ioutil.ReadAll(resp.Body), html.Parse(resp.Body): one read of the stream
Read(stream, body) == [stream EXCEPT !.reads = @ + 1, !.eof = ~body.readFails]

\* resp.Body.Close()
Close(stream) == [stream EXCEPT !.closes = @ + 1]

(***************************************************************************)
(* What a call returns: the diffs and the error of Compare, whether it     *)
(* panicked instead, the two streams as it leaves them, the engines run.   *)
(***************************************************************************)
Ret(ds, e, a, b, engines) ==
    [diffs |-> ds, err |-> e, panic |-> FALSE, a |-> a, b |-> b, ran |-> engines]

Panic == [diffs |-> <<>>, err |-> "nil", panic |-> TRUE, a |-> Fresh, b |-> Fresh,
          ran |-> {}]

(***************************************************************************)
(* The JSON differ (jsonDiffer, lines 23, 37, 77-87): gojsondiff.Compare   *)
(* fails unless both bodies unmarshal into an object; the ASCII formatter  *)
(* prints the left object one member a line, "-" before a member that is   *)
(* removed or changed, "+" before its new value and before the members     *)
(* added, " " before the rest; strings.Split leaves an empty last line.    *)
(***************************************************************************)
Member(marker, key, value, comma) ==
    <<marker, " ", " ", key, ":", " ">> \o value
        \o (IF comma THEN <<",">> ELSE <<>>)

RECURSIVE FormatKeys(_, _, _, _)
FormatKeys(ks, left, right, more) ==
    IF ks = <<>> THEN <<>>
    ELSE LET k == Head(ks)
             comma == more \/ \E i \in 2..Len(ks) : ks[i] \in DOMAIN left
             here ==
                IF k \notin DOMAIN left THEN <<>>
                ELSE IF k \notin DOMAIN right
                     THEN <<Member("-", k, left[k], comma)>>
                ELSE IF left[k] # right[k]
                     THEN <<Member("-", k, left[k], comma),
                            Member("+", k, right[k], comma)>>
                ELSE <<Member(" ", k, left[k], comma)>>
         IN  here \o FormatKeys(Tail(ks), left, right, more)

RECURSIVE FormatAdded(_, _, _)
FormatAdded(ks, left, right) ==
    IF ks = <<>> THEN <<>>
    ELSE LET k == Head(ks)
             comma == \E i \in 2..Len(ks) :
                          ks[i] \in DOMAIN right /\ ks[i] \notin DOMAIN left
         IN  (IF k \in DOMAIN right /\ k \notin DOMAIN left
              THEN <<Member("+", k, right[k], comma)>> ELSE <<>>)
             \o FormatAdded(Tail(ks), left, right)

\* strings.Split(formatter.Format(jsonDiffer.Compare(a, b)), "\n")
FormatLines(left, right) ==
    LET added == \E k \in DOMAIN right : k \notin DOMAIN left
    IN  <<<<" ", "{">>>> \o FormatKeys(JsonKeys, left, right, added)
            \o FormatAdded(JsonKeys, left, right) \o <<<<" ", "}">>, <<>>>>

(***************************************************************************)
(* compareJSONs (lines 65-89).  Both closes are deferred: they run on      *)
(* every return of the function.                                           *)
(***************************************************************************)
compareJSONsMasked(aResp, bResp) ==
    LET a1 == Read(Fresh, aResp.body)
        b1 == Read(Fresh, bResp.body)
    IN  IF aResp.body.readFails
        THEN Ret(<<>>, "read", Close(a1), Close(Fresh), {})
        ELSE IF bResp.body.readFails
        THEN Ret(<<>>, "read", Close(a1), Close(b1), {})
        ELSE IF ~aResp.body.valid \/ ~bResp.body.valid
        THEN Ret(<<>>, "nil", Close(a1), Close(b1), {"json"})
        ELSE Ret(getDiffsFromStrings(FormatLines(aResp.body.json, bResp.body.json)),
                 "nil", Close(a1), Close(b1), {"json"})

compareJSONs(aResp, bResp) ==
    LET a1 == Read(Fresh, aResp.body)
        b1 == Read(Fresh, bResp.body)
    IN  IF aResp.body.readFails
        THEN Ret(<<>>, "read", Close(a1), Close(Fresh), {})
        ELSE IF bResp.body.readFails
        THEN Ret(<<>>, "read", Close(a1), Close(b1), {})
        ELSE IF ~aResp.body.valid \/ ~bResp.body.valid
        THEN Ret(<<>>, "json", Close(a1), Close(b1), {"json"})
        ELSE Ret(getDiffsFromStrings(FormatLines(aResp.body.json, bResp.body.json)),
                 "nil", Close(a1), Close(b1), {"json"})

(***************************************************************************)
(* compareHTMLs (lines 91-107).  goquery.NewDocumentFromResponse reads the *)
(* body through the HTML parser and closes it; the parser fails only when  *)
(* the read fails.  Find(selector).Text() is the text of the matching      *)
(* elements, concatenated in document order.                               *)
(***************************************************************************)
RECURSIVE FindText(_, _)
FindText(doc, element) ==
    IF doc = <<>> THEN <<>>
    ELSE (IF Head(doc).tag = element THEN Head(doc).text ELSE <<>>)
         \o FindText(Tail(doc), element)

RECURSIVE compareEachReversed(_, _, _)
compareEachReversed(aDoc, bDoc, elements) ==
    IF elements = <<>> THEN <<>>
    ELSE compareEachReversed(aDoc, bDoc, Tail(elements))
         \o compareStrings(FindText(aDoc, Head(elements)),
                           FindText(bDoc, Head(elements)))

\* the loop of lines 101-105
RECURSIVE compareEach(_, _, _)
compareEach(aDoc, bDoc, elements) ==
    IF elements = <<>> THEN <<>>
    ELSE compareStrings(FindText(aDoc, Head(elements)),
                        FindText(bDoc, Head(elements)))
         \o compareEach(aDoc, bDoc, Tail(elements))

compareHTMLs(aResp, bResp, elements) ==
    LET a1 == Close(Read(Fresh, aResp.body))
        b1 == Close(Read(Fresh, bResp.body))
    IN  IF aResp.body.readFails
        THEN Ret(<<>>, "read", a1, Fresh, {"html"})
        ELSE IF bResp.body.readFails
        THEN Ret(<<>>, "read", a1, b1, {"html"})
        ELSE Ret(compareEach(aResp.body.html, bResp.body.html, elements), "nil",
                 a1, b1,
                 {"html"} \cup (IF elements = <<>> THEN {} ELSE {"text"}))

(***************************************************************************)
(* Compare (lines 43-63), one definition for each of its returns.  A       *)
(* fetch outcome is [failed, errText, Status, body]; compareElements is    *)
(* [nil, list], because a nil slice and an empty one take different paths. *)
(***************************************************************************)
compareAFailedSwapped(aErrText, bStatus) ==
    LET e == trimErrorHost(aErrText)
    IN  IF e.panic THEN Panic
        ELSE Ret(<<Diff(bStatus, Delete), Diff(e.Error, Insert)>>,
                 "nil", Fresh, Fresh, {})

\* lines 46-49
compareAFailed(aErrText, bStatus) ==
    LET e == trimErrorHost(aErrText)
    IN  IF e.panic THEN Panic
        ELSE Ret(<<Diff(e.Error, Delete), Diff(bStatus, Insert)>>,
                 "nil", Fresh, Fresh, {})

compareBFailedSwapped(aStatus, bErrText) ==
    LET e == trimErrorHost(bErrText)
    IN  IF e.panic THEN Panic
        ELSE Ret(<<Diff(e.Error, Delete), Diff(aStatus, Insert)>>,
                 "nil", Fresh, Fresh, {})

\* lines 50-53
compareBFailed(aStatus, bErrText) ==
    LET e == trimErrorHost(bErrText)
    IN  IF e.panic THEN Panic
        ELSE Ret(<<Diff(aStatus, Delete), Diff(e.Error, Insert)>>,
                 "nil", Fresh, Fresh, {})

compareBothFailedShortcut(aErrText, bErrText) ==
    LET aError == trimErrorHost(aErrText)
        bError == trimErrorHost(bErrText)
    IN  IF aError.panic \/ bError.panic THEN Panic
        ELSE Ret(<<Diff(aError.Error, Delete), Diff(bError.Error, Insert)>>,
                 "nil", Fresh, Fresh, {})

\* lines 54-58
compareBothFailed(aErrText, bErrText) ==
    LET aError == trimErrorHost(aErrText)
        bError == trimErrorHost(bErrText)
    IN  IF aError.panic \/ bError.panic THEN Panic
        ELSE Ret(compareStrings(aError.Error, bError.Error),
                 "nil", Fresh, Fresh, {"text"})

CompareInverted(a, b, elements) ==
    IF a.failed /\ ~b.failed THEN compareAFailed(a.errText, b.Status)
    ELSE IF ~a.failed /\ b.failed THEN compareBFailed(a.Status, b.errText)
    ELSE IF a.failed /\ b.failed THEN compareBothFailed(a.errText, b.errText)
    ELSE IF ~elements.nil THEN compareJSONs(a, b)
    ELSE compareHTMLs(a, b, elements.list)

Compare(a, b, elements) ==
    IF a.failed /\ ~b.failed THEN compareAFailed(a.errText, b.Status)
    ELSE IF ~a.failed /\ b.failed THEN compareBFailed(a.Status, b.errText)
    ELSE IF a.failed /\ b.failed THEN compareBothFailed(a.errText, b.errText)
    ELSE IF elements.nil THEN compareJSONs(a, b)
    ELSE compareHTMLs(a, b, elements.list)

(***************************************************************************)
(* The inputs of a call.  http.Get (lines 44-45) fails with a *url.Error,  *)
(* whose text is the operation, the URL, ": " and the inner error; it      *)
(* succeeds with a response that has a status line and a body.             *)
(***************************************************************************)
URLs == {<<"u">>, <<"h", ":", "u">>}

ErrChars == {":", "r", "t"}

UrlError(url, inner) == <<"G", " ">> \o url \o <<":", " ">> \o inner

StatusOK == <<"2", "0", "0", " ", "O", "K">>

StatusNotFound == <<"4", "0", "4">>

Failure(text) ==
    [failed |-> TRUE, errText |-> text, Status |-> <<>>, body |-> ReadFailBody]

Response(status, body) ==
    [failed |-> FALSE, errText |-> <<>>, Status |-> status, body |-> body]

Failures == {Failure(UrlError(u, e)) : u \in URLs, e \in Strs(ErrChars, MaxErrLen)}

NilElements == [nil |-> TRUE, list |-> <<>>]

Selectors == {NilElements} \cup
             {[nil |-> FALSE, list |-> l] :
                 l \in UNION {[1..k -> Tags] : k \in 0..MaxSelectors}}

\* calls in which a fetch fails: every failure against every failure and
\* against a few responses
SomeResponses ==
    {Response(s, b) : s \in {StatusOK, StatusNotFound},
                      b \in {ReadFailBody,
                             [readFails |-> FALSE, valid |-> TRUE,
                              json |-> NoObject, html |-> <<>>]}}

FailedCalls ==
    {c \in [a : Failures \cup SomeResponses, b : Failures \cup SomeResponses,
            elements : {e \in Selectors : Len(e.list) <= 1 /\
                                          \A i \in 1..Len(e.list) : e.list[i] = "h1"}] :
        c.a.failed \/ c.b.failed}

\* calls in which both fetches succeed: every body against every body
FetchedCalls ==
    [a : {Response(StatusOK, b) : b \in Bodies},
     b : {Response(StatusOK, b) : b \in Bodies},
     elements : Selectors]

(***************************************************************************)
(* The state machine: one call of one function in each behaviour, since    *)
(* no call leaves anything behind for the next.                            *)
(***************************************************************************)
Init ==
    /\ pc = "start"
    /\ aFetch = Failure(<<>>)
    /\ bFetch = Failure(<<>>)
    /\ compareElements = NilElements
    /\ result = <<>>
    /\ err = "nil"
    /\ aBody = Fresh
    /\ bBody = Fresh
    /\ ran = {}
    /\ errIn = <<>>
    /\ errOut = <<>>
    /\ lines = <<>>
    /\ diffs = <<>>

\* Compare(aURL, bURL, compareElements)
CallCompare ==
    /\ pc = "start"
    /\ \E c \in FailedCalls \cup FetchedCalls :
          LET r == Compare(c.a, c.b, c.elements)
          IN  /\ aFetch' = c.a
              /\ bFetch' = c.b
              /\ compareElements' = c.elements
              /\ result' = r.diffs
              /\ err' = r.err
              /\ aBody' = r.a
              /\ bBody' = r.b
              /\ ran' = r.ran
              /\ pc' = IF r.panic THEN "panicked" ELSE "returned"
    /\ UNCHANGED <<errIn, errOut, lines, diffs>>

MsgChars == {":", "d", " "}

\* trimErrorHost(err) on an error of any text
CallTrimErrorHost ==
    /\ pc = "start"
    /\ \E m \in Strs(MsgChars, MaxMsgLen) :
          LET r == trimErrorHost(m)
          IN  /\ errIn' = m
              /\ errOut' = r.Error
              /\ pc' = IF r.panic THEN "panicked" ELSE "trimmed"
    /\ UNCHANGED <<aFetch, bFetch, compareElements, result, err, aBody, bBody, ran,
                   lines, diffs>>

LineChars == {"+", "-", "a"}

\* getDiffsFromStrings(lines) on any lines
CallGetDiffsFromStrings ==
    /\ pc = "start"
    /\ \E ls \in UNION {[1..k -> Strs(LineChars, MaxLineLen)] : k \in 0..MaxLines} :
          /\ lines' = ls
          /\ diffs' = getDiffsFromStrings(ls)
          /\ pc' = "converted"
    /\ UNCHANGED <<aFetch, bFetch, compareElements, result, err, aBody, bBody, ran,
                   errIn, errOut>>

Next == CallCompare

Spec == Init /\ [][Next]_vars

NextTrim == CallTrimErrorHost

SpecTrim == Init /\ [][NextTrim]_vars

NextLines == CallGetDiffsFromStrings

SpecLines == Init /\ [][NextLines]_vars

(***************************************************************************)
(* Properties.                                                             *)
(***************************************************************************)
HasColon(s) == \E i \in 1..Len(s) : s[i] = ":"

\* the suffix of msg that starts at its last ':' (msg has one)
FromLastColon(msg) ==
    CHOOSE t \in {SubSeq(msg, i, Len(msg)) : i \in 1..Len(msg)} :
        t[1] = ":" /\ \A j \in 2..Len(t) : t[j] # ":"

Called == pc \in {"returned", "panicked"}

AOnlyFailed == Called /\ aFetch.failed /\ ~bFetch.failed

BOnlyFailed == Called /\ ~aFetch.failed /\ bFetch.failed

BothFailed == Called /\ aFetch.failed /\ bFetch.failed

BothFetched == Called /\ ~aFetch.failed /\ ~bFetch.failed

\* C1: when only the fetch of A fails, Compare returns a nil error and exactly
\* two fragments, a Deletion of A's error from its last ':' on and then an
\* Insertion of B's status text; no body is read and no engine is run.
C1_AFailed ==
    AOnlyFailed =>
        /\ pc = "returned"
        /\ err = "nil"
        /\ result = <<Diff(FromLastColon(aFetch.errText), Delete),
                      Diff(bFetch.Status, Insert)>>
        /\ ran = {}
        /\ aBody.reads = 0 /\ bBody.reads = 0

C1_Witness ==
    /\ AOnlyFailed
    /\ ~compareElements.nil
    /\ bFetch.Status = StatusOK
    /\ aFetch.errText = UrlError(<<"h", ":", "u">>, <<"r", "t">>)
    /\ result = <<Diff(<<":", " ", "r", "t">>, Delete), Diff(StatusOK, Insert)>>

\* C2: when only the fetch of B fails, Compare returns a nil error and exactly
\* two fragments, a Deletion of A's status text and then an Insertion of B's
\* error from its last ':' on.
C2_BFailed ==
    BOnlyFailed =>
        /\ pc = "returned"
        /\ err = "nil"
        /\ result = <<Diff(aFetch.Status, Delete),
                      Diff(FromLastColon(bFetch.errText), Insert)>>

C2_Witness ==
    /\ BOnlyFailed
    /\ compareElements.nil
    /\ aFetch.Status = StatusNotFound
    /\ bFetch.errText = UrlError(<<"u">>, <<"r", ":">>)
    /\ result = <<Diff(StatusNotFound, Delete), Diff(<<":">>, Insert)>>

\* the edits of a script that are not equalities, in the script's order
Changes(script) == SelectSeq(script, LAMBDA e : e.Type # "equal")

\* C3: when both fetches fail, Compare returns a nil error and the text diff of
\* the two trimmed errors: the insertions and deletions of the cleaned-up edit
\* script in its order, no equality, nothing when the trimmed errors are equal.
C3_BothFailed ==
    BothFailed =>
        LET aError == FromLastColon(aFetch.errText)
            bError == FromLastColon(bFetch.errText)
            kept   == Changes(DiffCleanupSemantic(DiffMain(aError, bError)))
        IN  /\ pc = "returned"
            /\ err = "nil"
            /\ Len(result) = Len(kept)
            /\ \A i \in 1..Len(kept) :
                  /\ result[i].Text = kept[i].Text
                  /\ result[i].Type =
                         (IF kept[i].Type = "insert" THEN Insert ELSE Delete)
            /\ (aError = bError => result = <<>>)

C3_Witness ==
    /\ BothFailed
    /\ pc = "returned"
    /\ aFetch.errText = UrlError(<<"u">>, <<"r">>)
    /\ bFetch.errText = UrlError(<<"h", ":", "u">>, <<"t">>)
    /\ result = <<Diff(<<"r">>, Delete), Diff(<<"t">>, Insert)>>

\* C4: of an error message with a ':', trimErrorHost returns the suffix that
\* starts at the last ':': it starts with ':', has no other ':', and is a
\* suffix of the message.
C4_Trim ==
    (pc # "start" /\ HasColon(errIn)) =>
        /\ pc = "trimmed"
        /\ Len(errOut) >= 1 /\ Len(errOut) <= Len(errIn)
        /\ errOut[1] = ":"
        /\ \A j \in 2..Len(errOut) : errOut[j] # ":"
        /\ errOut = SubSeq(errIn, Len(errIn) - Len(errOut) + 1, Len(errIn))

C4_Witness ==
    /\ pc = "trimmed"
    /\ errIn = <<"d", ":", ":", " ">>
    /\ errOut = <<":", " ">>

\* C5: of an error message without a ':', trimErrorHost returns the message
\* unchanged, and the call completes.
C5_NoColon ==
    (pc # "start" /\ ~HasColon(errIn)) => (pc = "trimmed" /\ errOut = errIn)

\* what Compare owes a fetched body: one read, to the end when the body can be
\* read at all, and one close
Consumed(stream, fetch) ==
    stream = [reads |-> 1, closes |-> 1, eof |-> ~fetch.body.readFails]

\* C6: when Compare returns, every body of a successful fetch has been read
\* to its end once and closed once.
C6_Bodies ==
    pc = "returned" =>
        /\ (~aFetch.failed => Consumed(aBody, aFetch))
        /\ (~bFetch.failed => Consumed(bBody, bFetch))

\* C7: when both fetches succeed and compareElements is nil, only the JSON
\* engine runs, the result is the conversion of its rendered lines, and a
\* body that is not valid JSON makes the call fail with an error.
C7_JsonOnly ==
    (BothFetched /\ compareElements.nil) =>
        /\ pc = "returned"
        /\ ran \subseteq {"json"}
        /\ ((~aFetch.body.valid \/ ~bFetch.body.valid) => err # "nil")
        /\ (err = "nil" =>
               /\ ran = {"json"}
               /\ result = getDiffsFromStrings(
                               FormatLines(aFetch.body.json, bFetch.body.json)))

C7_Witness ==
    /\ BothFetched
    /\ compareElements.nil
    /\ aFetch.body.valid /\ aFetch.body.json = [k \in {"a"} |-> <<"1">>]
    /\ bFetch.body.valid /\ bFetch.body.json = [k \in {"a"} |-> <<"-", "1">>]
    /\ err = "nil"
    /\ result = <<Diff(<<" ", " ", "a", ":", " ", "1">>, Delete),
                  Diff(<<" ", " ", "a", ":", " ", "-", "1">>, Insert)>>

\* a failure that is not a fetch failure: a body cannot be read, or there are
\* no selectors and a body is not valid JSON
BodyFailure ==
    \/ aFetch.body.readFails
    \/ bFetch.body.readFails
    \/ (compareElements.nil /\ (~aFetch.body.valid \/ ~bFetch.body.valid))

\* C8: when both fetches succeed and a body cannot be read or parsed, Compare
\* returns an error and no fragment; no error comes with fragments.
C8_Abort ==
    BothFetched =>
        /\ pc = "returned"
        /\ (BodyFailure => (err # "nil" /\ result = <<>>))
        /\ (err # "nil" => result = <<>>)

C8_Witness ==
    /\ BothFetched
    /\ compareElements.nil
    /\ ~aFetch.body.readFails /\ aFetch.body.valid
    /\ ~bFetch.body.readFails /\ ~bFetch.body.valid
    /\ err = "json"
    /\ result = <<>>

\* the fragments of the selectors 1..n, selector by selector
RECURSIVE BySelector(_)
BySelector(n) ==
    IF n = 0 THEN <<>>
    ELSE BySelector(n - 1)
         \o compareStrings(FindText(aFetch.body.html, compareElements.list[n]),
                           FindText(bFetch.body.html, compareElements.list[n]))

\* C9: when both fetches succeed, both bodies can be read and compareElements
\* is a list (the empty one too), the result is the text diffs of the
\* selectors' texts, one selector after the other in the list's order; a
\* selector that matches nothing on either side adds nothing; the JSON engine
\* does not run.
C9_Selectors ==
    (BothFetched /\ ~compareElements.nil
       /\ ~aFetch.body.readFails /\ ~bFetch.body.readFails) =>
        /\ pc = "returned"
        /\ err = "nil"
        /\ "json" \notin ran
        /\ result = BySelector(Len(compareElements.list))
        /\ ((\A i \in 1..Len(compareElements.list) :
                /\ FindText(aFetch.body.html, compareElements.list[i]) = <<>>
                /\ FindText(bFetch.body.html, compareElements.list[i]) = <<>>)
              => result = <<>>)

C9_Witness ==
    /\ BothFetched
    /\ compareElements = [nil |-> FALSE, list |-> <<"h1", "p">>]
    /\ aFetch.body.html = <<[tag |-> "h1", text |-> <<"x">>]>>
    /\ bFetch.body.html = <<[tag |-> "p", text |-> <<"y">>]>>
    /\ result = <<Diff(<<"x">>, Delete), Diff(<<"y">>, Insert)>>

\* the lines that start with '+' or '-', in their order
Marked == SelectSeq(lines, LAMBDA l : Len(l) >= 1 /\ l[1] \in {"+", "-"})

\* C10: getDiffsFromStrings gives one fragment for each line that starts with
\* '+' (an Insertion) or '-' (a Deletion) and none for any other line, in the
\* lines' order; the text is the line without its first character.
C10_Lines ==
    pc = "converted" =>
        /\ Len(diffs) = Len(Marked)
        /\ \A i \in 1..Len(Marked) :
              /\ diffs[i].Text = Tail(Marked[i])
              /\ diffs[i].Type = (IF Marked[i][1] = "+" THEN Insert ELSE Delete)

C10_Witness ==
    /\ pc = "converted"
    /\ lines = <<<<"-", "-">>, <<"a", "+">>>>
    /\ diffs = <<Diff(<<"-">>, Delete)>>

====
